---- MODULE Spec2Model ----
(***************************************************************************)
(* Model of the CanLII MCP server's outbound request governor:             *)
(* the module-level rate limiter (dailyCount, dailyResetDate,              *)
(* lastRequestTime, inFlight, queue), acquireSlot / releaseSlot and the    *)
(* canliiRequest helper that wraps every upstream call.                    *)
(*                                                                         *)
(* Each caller is one canliiRequest invocation.  An action is the code     *)
(* that runs between two suspension points (await) of that invocation.     *)
(* A continuation of a resolved promise is a queued job: timers, network   *)
(* events and the clock wait until no such job is left, while a new tool   *)
(* invocation may run before a job that is queued.  The clock advances in  *)
(* steps of TickStep ms and an expired timer fires within the step.        *)
(* Callers are numbered in the order in which their invocations are made.  *)
(*                                                                         *)
(* Around the governor the model follows one invocation from end to end:   *)
(* the HTTP middleware chain in front of the /mcp handler (cors, bearer    *)
(* gate, JSON body), the query canliiRequest builds from its params, the   *)
(* response of the upstream API (status and body text), the Error the      *)
(* invocation is rejected with and the ToolResult the tool handler returns.*)
(* Spec invokes the tools directly; HttpSpec invokes them through HTTP     *)
(* requests, ParamSpec passes every parameter mapping and UpstreamSpec     *)
(* lets the API answer with every response of Replies.                     *)
(* PendingSpec caps the callers between the quota check and the count.    *)
(***************************************************************************)
EXTENDS Integers, Sequences, FiniteSets, TLC

\* ---------------------------------------------------------------- constants
DAILY_QUOTA == 5000
SPACING == 500
DAY_MS == 24 * 60 * 60 * 1000

\* ------------------------------------------------------------------- bounds
NumCallers == 4
NearQuota == 2
LiveCallers == 3
HttpCallers == 2
ParamCallers == 2
MaxPending == 2

Callers == 1..NumCallers
TickStep == SPACING \div 2
StartTime == DAY_MS - NearQuota * SPACING
FreeTime == DAY_MS
MaxTime == FreeTime + NumCallers * SPACING

Outcomes == {"json", "status", "throw"}

\* upstream responses: res.status and the text of the body
Replies == {[status |-> 200, body |-> "{\"a\":1}"],
            [status |-> 200, body |-> "<html>"],
            [status |-> 404, body |-> "not found"],
            [status |-> 500, body |-> ""]}
NoReply == [status |-> 0, body |-> ""]

\* the responses of an upstream that answers with JSON or with 404
PlainReplies == {res \in Replies :
                    res.status = 404 \/ (res.status = 200 /\ res.body # "<html>")}

\* values of MCP_AUTH_TOKEN; "" when it is not set (`?? ""`, `if (token)`)
Tokens == {"", "s3cret"}

\* the Authorization header of a request: absent (<<>>) or its value
AuthHeaders == {<<>>, <<"">>, <<"Bearer s3cret">>, <<"bearer s3cret">>,
                <<"Bearer s3cret ">>, <<"s3cret">>}

\* HTTP requests: method, Authorization header, and whether a body sent as
\* application/json parses
Requests == [method : {"POST", "OPTIONS"}, authorization : AuthHeaders,
             validJson : BOOLEAN]
NoRequest == [method |-> "", authorization |-> <<>>, validJson |-> TRUE]

\* const API_KEY
ApiKey == "k3y"

\* names of the query parameters the tools pass, in the order of
\* Object.entries(params)
ParamOrder == <<"publishedBefore", "api_key">>
ParamKeys == {ParamOrder[i] : i \in 1..Len(ParamOrder)}

\* a parameter's value: undefined or absent (<<>>), "" or a text
ParamValues == {<<>>, <<"">>, <<"25">>}

\* the mappings given to canliiRequest
ParamMaps == [ParamKeys -> ParamValues]

\* params = {}
NoParams == [k \in ParamKeys |-> <<>>]

\* an Error object: its name and the parts of its message
NoError == [name |-> "", message |-> <<>>]

VARIABLES
    dailyCount,       \* let dailyCount
    dailyResetDate,   \* let dailyResetDate (day key)
    lastRequestTime,  \* let lastRequestTime
    inFlight,         \* let inFlight
    queue,            \* const queue (callers whose resolve is stored)
    now,              \* Date.now()
    pc,               \* position of each canliiRequest invocation
    timer,            \* deadline of the caller's setTimeout
    resp,             \* const res, while the invocation reads its body
    reply,            \* status and body text of the response the fetch returned
    thrown,           \* the Error the invocation was rejected with
    toolResult,       \* the ToolResult the tool handler returned
    authToken,        \* MCP_AUTH_TOKEN
    http,             \* HTTP transport: the request, its answer, handler reached
    params,           \* the params argument of the canliiRequest invocation
    query,            \* url.searchParams of the invocation's fetch
    upstream,         \* the responses the CanLII API gives in this run
    result,           \* how the invocation ended
    fetches,          \* number of fetch calls made by the invocation
    releases,         \* number of releaseSlot calls made by the invocation
    lastCallAt,       \* clock at the latest acquireSlot call
    sawFree,          \* inFlight was false at the acquireSlot call
    admittedAt,       \* clock at the invocation's admission (line 34)
    countAtReturn,    \* dailyCount when acquireSlot returned
    rolledOver,       \* the call reset a counter that had reached the quota
    aloneAtCall,      \* no other invocation was in progress at the call
    simultaneous,     \* called at the instant the previous caller took the free slot
    overtaken,        \* some call took the slot while a resolved waiter had not resumed
    behind,           \* the callers that were on the spacing delay at the call
    admissions        \* callers in the order they were admitted

vars == <<dailyCount, dailyResetDate, lastRequestTime, inFlight, queue, now,
          pc, timer, resp, reply, thrown, toolResult, authToken, http, params,
          query, upstream, result, fetches, releases, lastCallAt, sawFree, admittedAt, countAtReturn, rolledOver, aloneAtCall,
          simultaneous, overtaken, behind, admissions>>

gov == <<dailyCount, dailyResetDate, lastRequestTime, inFlight, queue>>
edge == <<authToken, http, params, upstream>>
hist == <<lastCallAt, sawFree, admittedAt, countAtReturn, rolledOver,
          aloneAtCall, simultaneous, overtaken, behind, admissions>>

Max(a, b) == IF a >= b THEN a ELSE b

\* new Date().toDateString(): the calendar day of the clock
DayKey(t) == t \div DAY_MS

resetDailyIfNeeded_count_noReset(t) == dailyCount

\* resetDailyIfNeeded: value of dailyCount after the call
resetDailyIfNeeded_count(t) ==
    IF DayKey(t) # dailyResetDate THEN 0 ELSE dailyCount

resetDailyIfNeeded_date_stale(t) == dailyResetDate

\* resetDailyIfNeeded: value of dailyResetDate after the call
resetDailyIfNeeded_date(t) ==
    IF DayKey(t) # dailyResetDate THEN DayKey(t) ELSE dailyResetDate

QuotaReached_offByOne(n) == n > DAILY_QUOTA

\* if (dailyCount >= 5000) throw
QuotaReached(n) == n >= DAILY_QUOTA

\* const wait = Math.max(0, 500 - (now - lastRequestTime))
SpacingWait(t, last) == Max(0, SPACING - (t - last))

\* res.ok: the status is in the range 200-299
ResOk(res) == res.status \in 200..299

\* res.json() resolves when the body text is JSON and rejects otherwise
ParsesAsJson(text) == text = "{\"a\":1}"

\* the value res.json() resolves to
ParseJson(text) == IF ParsesAsJson(text) THEN [a |-> 1] ELSE [a |-> 0]

\* new Error("CanLII daily API limit (5 000 requests) reached")
QuotaError ==
    [name |-> "Error",
     message |-> <<"CanLII daily API limit (5 000 requests) reached">>]

StatusError_noBody(res) ==
    [name |-> "Error", message |-> <<"CanLII API ", ToString(res.status)>>]

\* new Error(`CanLII API ${res.status}: ${body}`)
StatusError(res) ==
    [name |-> "Error",
     message |-> <<"CanLII API ", ToString(res.status), ": ", res.body>>]

\* the rejection of fetch on a network failure
TransportError == [name |-> "TypeError", message |-> <<"fetch failed">>]

\* the rejection of res.json() on a body that is not JSON
ParseError == [name |-> "SyntaxError", message |-> <<"Unexpected token">>]

\* the tool handler has not returned
NoResult == [returned |-> FALSE, isError |-> FALSE, text |-> <<>>]

\* JSON.stringify(data, null, 2) of the parsed body
Stringify(data) == "{\n  \"a\": " \o ToString(data.a) \o "\n}"

\* function ok(data)
ok(data) == [returned |-> TRUE, isError |-> FALSE, text |-> <<Stringify(data)>>]

\* function err(message)
err(message) == [returned |-> TRUE, isError |-> TRUE, text |-> message]

\* String(e) of an Error: its name, ": " and its message
String(e) == <<e.name, ": ">> \o e.message

toolHandler_noCatch(rejected, data, e) ==
    IF rejected THEN NoResult ELSE ok(data)

\* try { return ok(await request(...)) } catch (e) { return err(String(e)) }
toolHandler(rejected, data, e) ==
    IF rejected THEN err(String(e)) ELSE ok(data)

\* the tool handler continues when c's canliiRequest settles in this step
toolHandler_return(c) ==
    toolResult' =
        IF pc'[c] = "done"
        THEN [toolResult EXCEPT ![c] =
                 toolHandler(thrown'[c] # NoError, ParseJson(reply'[c].body),
                             thrown'[c])]
        ELSE toolResult

\* url.searchParams.set(k, v)
SearchParamsSet(q, k, v) ==
    [x \in DOMAIN q \cup {k} |-> IF x = k THEN v ELSE q[x]]

RECURSIVE SetParams_noFilter(_, _, _)
SetParams_noFilter(q, p, i) ==
    IF i > Len(ParamOrder) THEN q
    ELSE SetParams_noFilter(
             IF p[ParamOrder[i]] # <<>>
             THEN SearchParamsSet(q, ParamOrder[i], p[ParamOrder[i]][1])
             ELSE q,
             p, i + 1)

\* for (const [k, v] of Object.entries(params))
\*     if (v !== undefined && v !== "") url.searchParams.set(k, v)
RECURSIVE SetParams(_, _, _)
SetParams(q, p, i) ==
    IF i > Len(ParamOrder) THEN q
    ELSE SetParams(
             IF p[ParamOrder[i]] # <<>> /\ p[ParamOrder[i]] # <<"">>
             THEN SearchParamsSet(q, ParamOrder[i], p[ParamOrder[i]][1])
             ELSE q,
             p, i + 1)

\* the query of the URL canliiRequest builds from apiKey and params
BuildQuery(apiKey, p) == SetParams(SearchParamsSet(<<>>, "api_key", apiKey), p, 1)

\* c passed the quota check and its admission is not yet counted
Pending(c) == pc[c] \in {"queued", "woken", "spacing"}

\* c set inFlight to true and has not yet called releaseSlot
Holding(c) == pc[c] \in {"spacing", "admitted", "fetching", "body"}

\* the continuation of a resolved promise is queued: a waiter that
\* releaseSlot resolved, or canliiRequest after acquireSlot returned
JobPending == \E c \in Callers : pc[c] \in {"woken", "admitted"}

\* c's canliiRequest invocation is in progress
InProgress(c) == pc[c] \notin {"idle", "done"}

\* the state after the module is loaded, MCP_AUTH_TOKEN being in tokens,
\* the tools passing mappings in maps and the API answering with replies
InitWith(tokens, maps, replies) ==
    /\ dailyCount \in {0, DAILY_QUOTA - NearQuota}
    /\ dailyResetDate = DayKey(StartTime)
    /\ lastRequestTime = IF dailyCount = 0 THEN 0 ELSE StartTime - SPACING
    /\ inFlight = FALSE
    /\ queue = <<>>
    /\ now = StartTime
    /\ pc = [c \in Callers |-> "idle"]
    /\ timer = [c \in Callers |-> 0]
    /\ resp = [c \in Callers |-> "none"]
    /\ reply = [c \in Callers |-> NoReply]
    /\ thrown = [c \in Callers |-> NoError]
    /\ toolResult = [c \in Callers |-> NoResult]
    /\ authToken \in tokens
    /\ params \in [Callers -> maps]
    /\ \A c \in Callers : c > ParamCallers => params[c] = NoParams
    /\ query = [c \in Callers |-> <<>>]
    /\ upstream = replies
    /\ http = [c \in Callers |->
                [request |-> NoRequest, status |-> 0, reached |-> FALSE]]
    /\ result = [c \in Callers |-> "none"]
    /\ fetches = [c \in Callers |-> 0]
    /\ releases = [c \in Callers |-> 0]
    /\ lastCallAt = -1
    /\ sawFree = [c \in Callers |-> FALSE]
    /\ admittedAt = [c \in Callers |-> -1]
    /\ countAtReturn = [c \in Callers |-> -1]
    /\ rolledOver = [c \in Callers |-> FALSE]
    /\ aloneAtCall = [c \in Callers |-> FALSE]
    /\ simultaneous = [c \in Callers |-> FALSE]
    /\ overtaken = FALSE
    /\ behind = [c \in Callers |-> {}]
    /\ admissions = <<>>

\* tools are invoked directly (stdio transport, or HTTP without a token)
Init == InitWith({""}, {NoParams}, PlainReplies)

\* acquireSlot lines 30-35, from `inFlight = true` to the first of
\* the setTimeout suspension and the return; cnt is dailyCount on entry
TakeSlot(c, cnt) ==
    /\ inFlight' = TRUE
    /\ IF SpacingWait(now, lastRequestTime) > 0
       THEN /\ pc' = [pc EXCEPT ![c] = "spacing"]
            /\ timer' = [timer EXCEPT ![c] = now + SpacingWait(now, lastRequestTime)]
            /\ lastRequestTime' = lastRequestTime
            /\ dailyCount' = cnt
            /\ UNCHANGED <<admittedAt, countAtReturn, admissions>>
       ELSE /\ pc' = [pc EXCEPT ![c] = "admitted"]
            /\ timer' = timer
            /\ lastRequestTime' = now
            /\ dailyCount' = cnt + 1
            /\ admittedAt' = [admittedAt EXCEPT ![c] = now]
            /\ countAtReturn' = [countAtReturn EXCEPT ![c] = cnt + 1]
            /\ admissions' = Append(admissions, c)

\* the quota check of c's call fails (line 25): acquireSlot throws and, the
\* call being outside the try block, canliiRequest rejects at once
QuotaFail_inTry(c, cnt) ==
    /\ dailyCount' = cnt
    /\ result' = [result EXCEPT ![c] = "quota_err"]
    /\ inFlight' = FALSE
    /\ releases' = [releases EXCEPT ![c] = @ + 1]
    /\ queue' = IF queue # <<>> THEN Tail(queue) ELSE queue
    /\ pc' = IF queue # <<>>
             THEN [pc EXCEPT ![c] = "done", ![Head(queue)] = "woken"]
             ELSE [pc EXCEPT ![c] = "done"]
    /\ UNCHANGED <<lastRequestTime, timer, admittedAt, countAtReturn, admissions>>

\* a quota check placed after the timestamp update
QuotaFail_stamped(c, cnt) ==
    /\ dailyCount' = cnt
    /\ pc' = [pc EXCEPT ![c] = "done"]
    /\ result' = [result EXCEPT ![c] = "quota_err"]
    /\ lastRequestTime' = now
    /\ UNCHANGED <<inFlight, queue, timer, releases,
                   admittedAt, countAtReturn, admissions>>

QuotaFail(c, cnt) ==
    /\ dailyCount' = cnt
    /\ pc' = [pc EXCEPT ![c] = "done"]
    /\ result' = [result EXCEPT ![c] = "quota_err"]
    /\ UNCHANGED <<lastRequestTime, inFlight, queue, timer, releases,
                   admittedAt, countAtReturn, admissions>>

\* canliiRequest called: acquireSlot runs up to its first suspension
acquireSlot_call(c) ==
    /\ pc[c] = "idle"
    /\ \A d \in Callers : d < c => pc[d] # "idle"
    /\ dailyResetDate' = resetDailyIfNeeded_date(now)
    /\ lastCallAt' = now
    /\ sawFree' = [sawFree EXCEPT ![c] = ~inFlight]
    /\ rolledOver' = [rolledOver EXCEPT ![c] =
            DayKey(now) # dailyResetDate /\ dailyCount >= DAILY_QUOTA]
    /\ aloneAtCall' = [aloneAtCall EXCEPT ![c] =
            \A d \in Callers \ {c} : ~InProgress(d)]
    /\ simultaneous' = [simultaneous EXCEPT ![c] =
            c > 1 /\ lastCallAt = now /\ sawFree[c - 1] /\ Holding(c - 1)]
    /\ behind' = [behind EXCEPT ![c] =
            IF QuotaReached(resetDailyIfNeeded_count(now)) THEN {}
            ELSE {d \in Callers : pc[d] = "spacing"}]
    /\ overtaken' = (\/ overtaken
                     \/ /\ ~QuotaReached(resetDailyIfNeeded_count(now))
                        /\ ~inFlight
                        /\ \E d \in Callers : pc[d] = "woken")
    /\ IF QuotaReached(resetDailyIfNeeded_count(now))
       THEN QuotaFail(c, resetDailyIfNeeded_count(now))
       ELSE /\ UNCHANGED <<result, releases>>
            /\ IF inFlight
               THEN /\ queue' = Append(queue, c)
                    /\ pc' = [pc EXCEPT ![c] = "queued"]
                    /\ dailyCount' = resetDailyIfNeeded_count(now)
                    /\ UNCHANGED <<lastRequestTime, inFlight, timer,
                                   admittedAt, countAtReturn, admissions>>
               ELSE /\ queue' = queue
                    /\ TakeSlot(c, resetDailyIfNeeded_count(now))
    /\ thrown' = [thrown EXCEPT ![c] =
            IF QuotaReached(resetDailyIfNeeded_count(now)) THEN QuotaError ELSE @]
    /\ UNCHANGED <<now, resp, reply, fetches, edge, query>>
    /\ toolHandler_return(c)

\* an acquireSlot that checks the quota again when its caller is woken
acquireSlot_resume_recheck(c) ==
    /\ pc[c] = "woken"
    /\ IF QuotaReached(dailyCount)
       THEN /\ QuotaFail(c, dailyCount)
            /\ thrown' = [thrown EXCEPT ![c] = QuotaError]
       ELSE /\ TakeSlot(c, dailyCount)
            /\ UNCHANGED <<queue, thrown, result, releases>>
    /\ UNCHANGED <<dailyResetDate, now, resp, reply, fetches, lastCallAt,
                   sawFree, rolledOver, aloneAtCall, simultaneous, overtaken,
                   behind, edge, query>>
    /\ toolHandler_return(c)

\* the queued promise was resolved: acquireSlot continues at line 30
acquireSlot_resume(c) ==
    /\ pc[c] = "woken"
    /\ TakeSlot(c, dailyCount)
    /\ UNCHANGED <<dailyResetDate, queue, now, resp, reply, thrown, toolResult,
                   result, fetches, releases, lastCallAt, sawFree, rolledOver,
                   aloneAtCall, simultaneous, overtaken, behind, edge, query>>

\* the setTimeout fired: acquireSlot continues at line 34 and returns
acquireSlot_timer(c) ==
    /\ pc[c] = "spacing"
    /\ now >= timer[c]
    /\ ~JobPending
    /\ lastRequestTime' = now
    /\ dailyCount' = dailyCount + 1
    /\ pc' = [pc EXCEPT ![c] = "admitted"]
    /\ admittedAt' = [admittedAt EXCEPT ![c] = now]
    /\ countAtReturn' = [countAtReturn EXCEPT ![c] = dailyCount + 1]
    /\ admissions' = Append(admissions, c)
    /\ timer' = [timer EXCEPT ![c] = 0]
    /\ UNCHANGED <<dailyResetDate, inFlight, queue, now, resp, reply, thrown,
                   toolResult, result, fetches, releases, lastCallAt, sawFree,
                   rolledOver, aloneAtCall, simultaneous, overtaken, behind, edge, query>>

\* releaseSlot that drops the head entry without resolving it
releaseSlot_noWake(c, r) ==
    /\ inFlight' = FALSE
    /\ releases' = [releases EXCEPT ![c] = @ + 1]
    /\ result' = [result EXCEPT ![c] = r]
    /\ queue' = IF queue # <<>> THEN Tail(queue) ELSE queue
    /\ pc' = [pc EXCEPT ![c] = "done"]

\* releaseSlot that resolves the head entry and leaves inFlight set
releaseSlot_noClear(c, r) ==
    /\ inFlight' = inFlight
    /\ releases' = [releases EXCEPT ![c] = @ + 1]
    /\ result' = [result EXCEPT ![c] = r]
    /\ IF queue # <<>>
       THEN /\ queue' = Tail(queue)
            /\ pc' = [pc EXCEPT ![c] = "done", ![Head(queue)] = "woken"]
       ELSE /\ queue' = queue
            /\ pc' = [pc EXCEPT ![c] = "done"]

\* releaseSlot that resolves the head entry and leaves it in the queue
releaseSlot_peek(c, r) ==
    /\ inFlight' = FALSE
    /\ releases' = [releases EXCEPT ![c] = @ + 1]
    /\ result' = [result EXCEPT ![c] = r]
    /\ queue' = queue
    /\ IF queue # <<>>
       THEN pc' = [pc EXCEPT ![c] = "done", ![Head(queue)] = "woken"]
       ELSE pc' = [pc EXCEPT ![c] = "done"]

\* releaseSlot called by c, whose invocation then ends with outcome r
releaseSlot(c, r) ==
    /\ inFlight' = FALSE
    /\ releases' = [releases EXCEPT ![c] = @ + 1]
    /\ result' = [result EXCEPT ![c] = r]
    /\ IF queue # <<>>
       THEN /\ queue' = Tail(queue)
            /\ pc' = [pc EXCEPT ![c] = "done", ![Head(queue)] = "woken"]
       ELSE /\ queue' = queue
            /\ pc' = [pc EXCEPT ![c] = "done"]

\* canliiRequest after `await acquireSlot()`: build the URL, call fetch
canliiRequest_fetch(c) ==
    /\ pc[c] = "admitted"
    /\ pc' = [pc EXCEPT ![c] = "fetching"]
    /\ fetches' = [fetches EXCEPT ![c] = @ + 1]
    /\ query' = [query EXCEPT ![c] = BuildQuery(ApiKey, params[c])]
    /\ UNCHANGED <<gov, now, timer, resp, reply, thrown, toolResult, result,
                   releases, hist, edge>>

\* canliiRequest whose release is on the success path only
canliiRequest_response_noFinally(c, r) ==
    /\ pc[c] = "fetching"
    /\ ~JobPending
    /\ resp' = [resp EXCEPT ![c] = IF r = "throw" THEN "none" ELSE r]
    /\ IF r = "throw"
       THEN /\ pc' = [pc EXCEPT ![c] = "done"]
            /\ result' = [result EXCEPT ![c] = "transport_err"]
            /\ UNCHANGED <<gov, releases>>
       ELSE /\ pc' = [pc EXCEPT ![c] = "body"]
            /\ UNCHANGED <<gov, result, releases>>
    /\ IF r = "throw"
       THEN reply' = reply
       ELSE \E res \in upstream :
               /\ ResOk(res) = (r = "json")
               /\ reply' = [reply EXCEPT ![c] = res]
    /\ thrown' = [thrown EXCEPT ![c] = IF r = "throw" THEN TransportError ELSE @]
    /\ toolHandler_return(c)
    /\ UNCHANGED <<now, timer, fetches, hist, edge, query>>

\* fetch settles: a response (2xx or not) or a transport error
canliiRequest_response(c, r) ==
    /\ pc[c] = "fetching"
    /\ ~JobPending
    /\ resp' = [resp EXCEPT ![c] = IF r = "throw" THEN "none" ELSE r]
    /\ IF r = "throw"
       THEN /\ releaseSlot(c, "transport_err")
            /\ UNCHANGED <<dailyCount, dailyResetDate, lastRequestTime>>
       ELSE /\ pc' = [pc EXCEPT ![c] = "body"]
            /\ UNCHANGED <<gov, result, releases>>
    /\ IF r = "throw"
       THEN reply' = reply
       ELSE \E res \in upstream :
               /\ ResOk(res) = (r = "json")
               /\ reply' = [reply EXCEPT ![c] = res]
    /\ thrown' = [thrown EXCEPT ![c] = IF r = "throw" THEN TransportError ELSE @]
    /\ toolHandler_return(c)
    /\ UNCHANGED <<now, timer, fetches, hist, edge, query>>

\* canliiRequest that calls fetch again after a non-success response
canliiRequest_body_retry(c) ==
    /\ pc[c] = "body"
    /\ ~JobPending
    /\ IF resp[c] # "json"
       THEN /\ pc' = [pc EXCEPT ![c] = "fetching"]
            /\ fetches' = [fetches EXCEPT ![c] = @ + 1]
            /\ UNCHANGED <<inFlight, queue, result, releases, thrown>>
       ELSE /\ releaseSlot(c, IF ParsesAsJson(reply[c].body) THEN "ok"
                              ELSE "parse_err")
            /\ thrown' = [thrown EXCEPT ![c] =
                    IF ParsesAsJson(reply[c].body) THEN @ ELSE ParseError]
            /\ fetches' = fetches
    /\ resp' = [resp EXCEPT ![c] = "none"]
    /\ UNCHANGED <<dailyCount, dailyResetDate, lastRequestTime, now, timer,
                   reply, hist, edge, query>>
    /\ toolHandler_return(c)

\* res.json() / res.text() settles, then the finally block runs
canliiRequest_body(c) ==
    /\ pc[c] = "body"
    /\ ~JobPending
    /\ releaseSlot(c, IF resp[c] # "json" THEN "status_err"
                       ELSE IF ParsesAsJson(reply[c].body) THEN "ok"
                       ELSE "parse_err")
    /\ thrown' = [thrown EXCEPT ![c] =
            IF resp[c] # "json" THEN StatusError(reply[c])
            ELSE IF ParsesAsJson(reply[c].body) THEN @
            ELSE ParseError]
    /\ resp' = [resp EXCEPT ![c] = "none"]
    /\ UNCHANGED <<dailyCount, dailyResetDate, lastRequestTime, now, timer,
                   reply, fetches, hist, edge, query>>
    /\ toolHandler_return(c)

\* a spacing timer that has not expired yet
TimerRunning == \E c \in Callers : pc[c] = "spacing" /\ now < timer[c]

\* a spacing timer that has expired and whose callback has not run yet
TimerDue == \E c \in Callers : pc[c] = "spacing" /\ now >= timer[c]

\* the clock advances; an expired timer fires before it advances further
Tick ==
    /\ ~JobPending
    /\ ~TimerDue
    /\ now + TickStep <= MaxTime
    /\ TimerRunning \/ now + TickStep <= FreeTime
    /\ now' = now + TickStep
    /\ UNCHANGED <<gov, pc, timer, resp, reply, thrown, toolResult, result,
                   fetches, releases, hist, edge, query>>

Next ==
    \/ \E c \in Callers : acquireSlot_call(c)
    \/ \E c \in Callers : acquireSlot_resume(c)
    \/ \E c \in Callers : acquireSlot_timer(c)
    \/ \E c \in Callers : canliiRequest_fetch(c)
    \/ \E c \in Callers, r \in Outcomes : canliiRequest_response(c, r)
    \/ \E c \in Callers : canliiRequest_body(c)
    \/ Tick

Spec == Init /\ [][Next]_vars

\* canliiRequest called while no other invocation is in progress
SequentialCall(c) ==
    /\ \A d \in Callers : ~InProgress(d)
    /\ acquireSlot_call(c)

NextSequential ==
    \/ \E c \in Callers : SequentialCall(c)
    \/ \E c \in Callers : acquireSlot_timer(c)
    \/ \E c \in Callers : canliiRequest_fetch(c)
    \/ \E c \in Callers, r \in Outcomes : canliiRequest_response(c, r)
    \/ \E c \in Callers : canliiRequest_body(c)
    \/ Tick

\* every call is made after the previous invocation has ended
SpecSequential == Init /\ [][NextSequential]_vars

\* timers fire, resolved promises resume, fetch settles, the clock advances
Fairness ==
    /\ WF_vars(Tick)
    /\ \A c \in Callers :
        /\ WF_vars(acquireSlot_resume(c))
        /\ WF_vars(acquireSlot_timer(c))
        /\ WF_vars(canliiRequest_fetch(c))
        /\ WF_vars(\E r \in Outcomes : canliiRequest_response(c, r))
        /\ WF_vars(canliiRequest_body(c))

\* canliiRequest called by one of the first LiveCallers callers
BoundedCall(c) ==
    /\ c <= LiveCallers
    /\ acquireSlot_call(c)

NextLive ==
    \/ \E c \in Callers : BoundedCall(c)
    \/ \E c \in Callers : acquireSlot_resume(c)
    \/ \E c \in Callers : acquireSlot_timer(c)
    \/ \E c \in Callers : canliiRequest_fetch(c)
    \/ \E c \in Callers, r \in Outcomes : canliiRequest_response(c, r)
    \/ \E c \in Callers : canliiRequest_body(c)
    \/ Tick

FairSpec == Init /\ [][NextLive]_vars /\ Fairness

\* the API answers with every response of Replies
UpstreamSpec == InitWith({""}, {NoParams}, Replies) /\ [][NextLive]_vars

\* canliiRequest called while fewer than MaxPending callers have passed
\* the quota check without being counted yet
PendingCall(c) ==
    /\ Cardinality({d \in Callers : Pending(d)}) < MaxPending
    /\ acquireSlot_call(c)

NextPending ==
    \/ \E c \in Callers : PendingCall(c)
    \/ \E c \in Callers : acquireSlot_resume(c)
    \/ \E c \in Callers : acquireSlot_timer(c)
    \/ \E c \in Callers : canliiRequest_fetch(c)
    \/ \E c \in Callers, r \in Outcomes : canliiRequest_response(c, r)
    \/ \E c \in Callers : canliiRequest_body(c)
    \/ Tick

\* at most MaxPending callers are between the quota check and the count
PendingSpec == Init /\ [][NextPending]_vars

\* c.req.header("authorization") ?? ""
HeaderValue(hs) == IF hs = <<>> THEN "" ELSE hs[1]

Authorized_caseless(header, token) ==
    header = "Bearer " \o token \/ header = "bearer " \o token

\* header === `Bearer ${token}`
Authorized(header, token) == header = "Bearer " \o token

\* the status with which the middleware chain answers request q itself, or
\* 0 when it passes q on to the /mcp handler: the cors middleware answers
\* an OPTIONS request (204) without calling next, the bearer gate answers
\* 401 when a token is set and the header differs, the body middleware
\* answers 400 when a JSON body does not parse
Middleware(q) ==
    IF q.method = "OPTIONS" THEN 204
    ELSE IF authToken # "" /\ ~Authorized(HeaderValue(q.authorization), authToken)
    THEN 401
    ELSE IF ~q.validJson THEN 400
    ELSE 0

\* HTTP request q arrives and runs through the middleware chain; when the
\* chain passes it on, the /mcp handler is reached
httpRequest(c, q) ==
    /\ c <= HttpCallers
    /\ pc[c] = "idle"
    /\ http[c].status = 0
    /\ \A d \in Callers : d < c => http[d].status # 0
    /\ IF Middleware(q) # 0
       THEN /\ http' = [http EXCEPT ![c] =
                    [request |-> q, status |-> Middleware(q), reached |-> FALSE]]
            /\ pc' = [pc EXCEPT ![c] = "done"]
       ELSE /\ http' = [http EXCEPT ![c] =
                    [request |-> q, status |-> 200, reached |-> TRUE]]
            /\ pc' = pc
    /\ UNCHANGED <<gov, now, timer, resp, reply, thrown, toolResult, authToken,
                   params, query, upstream, result, fetches, releases, hist>>

\* the /mcp handler dispatches the request to a tool, which calls
\* canliiRequest
mcpToolCall(c) ==
    /\ http[c].reached
    /\ acquireSlot_call(c)

NextHttp ==
    \/ \E c \in Callers, q \in Requests : httpRequest(c, q)
    \/ \E c \in Callers : mcpToolCall(c)
    \/ \E c \in Callers : acquireSlot_resume(c)
    \/ \E c \in Callers : acquireSlot_timer(c)
    \/ \E c \in Callers : canliiRequest_fetch(c)
    \/ \E c \in Callers, r \in Outcomes : canliiRequest_response(c, r)
    \/ \E c \in Callers : canliiRequest_body(c)
    \/ Tick

\* the HTTP transport: tools are invoked by requests that passed the chain
HttpSpec == InitWith(Tokens, {NoParams}, PlainReplies) /\ [][NextHttp]_vars

\* canliiRequest called by a tool with a parameter mapping
ParamCall(c) ==
    /\ c <= ParamCallers
    /\ acquireSlot_call(c)

NextParam ==
    \/ \E c \in Callers : ParamCall(c)
    \/ \E c \in Callers : acquireSlot_resume(c)
    \/ \E c \in Callers : acquireSlot_timer(c)
    \/ \E c \in Callers : canliiRequest_fetch(c)
    \/ \E c \in Callers, r \in Outcomes : canliiRequest_response(c, r)
    \/ \E c \in Callers : canliiRequest_body(c)
    \/ Tick

\* the tools pass every mapping of ParamMaps
ParamSpec == InitWith({""}, ParamMaps, PlainReplies) /\ [][NextParam]_vars

\* c's admission has been counted and c has not yet called releaseSlot
Admitted(c) == pc[c] \in {"admitted", "fetching", "body"}

\* c passed the quota check of its acquireSlot call
PassedCheck(c) == pc[c] # "idle" /\ result[c] # "quota_err"

Holders == {c \in Callers : Holding(c)}

\* ------------------------------------------------------------------ claims

\* C1: at most one caller is at any instant between setting inFlight to
\* true in acquireSlot and its own releaseSlot call.
C1_MutualExclusion == Cardinality(Holders) <= 1

\* C2: each admission is at least SPACING ms after the admission before it.
C2_Spacing ==
    \A i \in 1..Len(admissions) - 1 :
        admittedAt[admissions[i + 1]] - admittedAt[admissions[i]] >= SPACING

\* C3: the number of admissions counted in one epoch never exceeds the
\* daily quota.
C3_QuotaCap == dailyCount <= DAILY_QUOTA

\* C4: with calls made one after the other within one epoch, a call fails
\* with the quota error exactly when dailyCount equals the quota and then
\* leaves dailyCount as it is; every other call is admitted and raises
\* dailyCount by exactly 1, never beyond the quota.
C4_SequentialQuota ==
    [][\A c \in Callers :
         /\ (pc[c] = "idle" /\ pc'[c] # "idle"
                /\ dailyResetDate' = dailyResetDate) =>
               /\ (result'[c] = "quota_err") <=> (dailyCount = DAILY_QUOTA)
               /\ (result'[c] = "quota_err") => (dailyCount' = dailyCount)
         /\ (admittedAt'[c] # admittedAt[c]
                /\ dailyResetDate' = dailyResetDate) =>
               /\ dailyCount' = dailyCount + 1
               /\ dailyCount' <= DAILY_QUOTA
               /\ countAtReturn'[c] = dailyCount'
    ]_vars

\* the quota is used up by successive calls and the next call fails
C4_Witness ==
    \E c \in Callers :
        /\ result[c] = "quota_err"
        /\ dailyCount = DAILY_QUOTA
        /\ dailyResetDate = DayKey(StartTime)
        /\ Len(admissions) = NearQuota
        /\ \A d \in Callers : d < c => countAtReturn[d] = DAILY_QUOTA - NearQuota + d

\* C5: callers that passed the quota check are admitted in the order in
\* which they called acquireSlot: when a caller is admitted, every caller
\* that passed the check before it has been admitted earlier.
C5_Fifo ==
    \A i \in 1..Len(admissions) :
        \A d \in Callers :
            (d < admissions[i] /\ PassedCheck(d)) =>
                \E j \in 1..i - 1 : admissions[j] = d

\* C6: every caller that passed the quota check and waits, in the queue or
\* on the spacing delay, is eventually admitted.
C6_NoStarvation ==
    \A c \in Callers : Pending(c) ~> (admittedAt[c] # -1)

\* a caller that was enqueued and then waited out the spacing delay has
\* been admitted
C6_Witness ==
    \E c \in Callers :
        /\ PassedCheck(c) /\ ~sawFree[c]
        /\ admittedAt[c] > lastCallAt

\* C7: an invocation whose acquireSlot succeeded has called releaseSlot
\* exactly once when it ends and not at all before, whatever the network
\* outcome, and the call comes after its one fetch has settled.
C7_GuaranteedRelease ==
    \A c \in Callers :
        admittedAt[c] # -1 =>
            /\ releases[c] = (IF pc[c] = "done" THEN 1 ELSE 0)
            /\ releases[c] = 1 => fetches[c] = 1

\* three invocations ended with the three network outcomes, each released
C7_Witness ==
    \E a, b, c \in Callers :
        /\ result[a] = "ok" /\ releases[a] = 1
        /\ result[b] = "status_err" /\ releases[b] = 1
        /\ result[c] = "transport_err" /\ releases[c] = 1

\* C8: an invocation whose acquireSlot failed with the quota error has
\* ended with that failure, made no fetch and did not call releaseSlot.
C8_QuotaFailNoUpstream ==
    \A c \in Callers :
        result[c] = "quota_err" =>
            /\ pc[c] = "done"
            /\ fetches[c] = 0
            /\ releases[c] = 0
            /\ admittedAt[c] = -1

\* a call failed on the quota while another invocation held the slot
C8_Witness ==
    \E c \in Callers :
        /\ result[c] = "quota_err"
        /\ \E d \in Callers : Holding(d)
        /\ inFlight

\* C9 as stated: a call that finds a new day key with dailyCount at the
\* quota does not fail, and dailyCount is 1 when it returns (looked at in
\* the runs in which no call has overtaken a resolved waiter).
C9_RolloverCountIsOne ==
    \A c \in Callers :
        (rolledOver[c] /\ ~overtaken) =>
            /\ result[c] # "quota_err"
            /\ countAtReturn[c] # -1 => countAtReturn[c] = 1

\* C9 amended: a call that finds a new day key with dailyCount at the quota
\* does not fail with the quota error; when no other invocation is in
\* progress at that call, dailyCount is 1 when it returns.
C9_Rollover ==
    \A c \in Callers :
        rolledOver[c] =>
            /\ result[c] # "quota_err"
            /\ (countAtReturn[c] # -1 /\ aloneAtCall[c]) => countAtReturn[c] = 1

\* the first call of the new day, made alone, returned with dailyCount 1
C9_Witness ==
    \E c \in Callers :
        rolledOver[c] /\ aloneAtCall[c] /\ countAtReturn[c] = 1

\* C10: when two callers call acquireSlot at the same instant with the slot
\* free, only the first takes it without waiting; the second is admitted
\* only after the first called releaseSlot and at least SPACING ms after
\* the first's admission.
C10_TwoSimultaneous ==
    \A c \in Callers :
        (simultaneous[c] /\ PassedCheck(c)) =>
            /\ ~sawFree[c]
            /\ admittedAt[c] # -1 =>
                  /\ releases[c - 1] = 1
                  /\ admittedAt[c] >= admittedAt[c - 1] + SPACING

\* part occurs in the message
Contains(message, part) == \E i \in 1..Len(message) : message[i] = part

\* C11: an invocation whose upstream response has a non-success status
\* ends with a failure whose message contains the status code and the body
\* text, after exactly one releaseSlot call; a later acquireSlot call made
\* while nothing else is in progress finds the slot free and is not queued.
C11_UpstreamFailure ==
    \A c \in Callers :
        /\ (pc[c] = "done" /\ reply[c] # NoReply /\ ~ResOk(reply[c])) =>
               result[c] = "status_err"
        /\ result[c] = "status_err" =>
               /\ ~ResOk(reply[c])
               /\ Contains(thrown[c].message, ToString(reply[c].status))
               /\ Contains(thrown[c].message, reply[c].body)
               /\ releases[c] = 1
               /\ \A d \in Callers :
                     (d > c /\ aloneAtCall[d]) =>
                         sawFree[d] /\ pc[d] # "queued"

\* a 404 "not found" response failed one invocation and a later one, called
\* alone, was admitted
C11_Witness ==
    \E c, d \in Callers :
        /\ result[c] = "status_err"
        /\ reply[c] = [status |-> 404, body |-> "not found"]
        /\ d > c /\ aloneAtCall[d] /\ admittedAt[d] # -1

\* C12: every invocation makes at most one fetch call; it has made exactly
\* one from the moment it continues after its admission, whatever the
\* response, and none if it was not admitted.
C12_OneFetch ==
    \A c \in Callers :
        /\ fetches[c] <= 1
        /\ fetches[c] = 1 <=> (admittedAt[c] # -1 /\ pc[c] # "admitted")

\* invocations ended on a non-success response, on a transport error and
\* on a body that is not JSON, each after a single fetch
C12_Witness ==
    \E a, b, c \in Callers :
        /\ result[a] = "status_err" /\ fetches[a] = 1
        /\ result[b] = "transport_err" /\ fetches[b] = 1
        /\ result[c] = "parse_err" /\ fetches[c] = 1

\* C13: every tool invocation that has ended returned a ToolResult; after a
\* quota failure, a non-success response or a transport error (and after
\* any other rejection) it is an err result, isError true, whose text
\* carries the message of the error; otherwise it is an ok result.
C13_UniformFailure ==
    \A c \in Callers :
        pc[c] = "done" =>
            /\ toolResult[c].returned
            /\ toolResult[c].isError <=> result[c] # "ok"
            /\ result[c] \in {"quota_err", "status_err", "transport_err"} =>
                  /\ thrown[c] = (CASE result[c] = "quota_err" -> QuotaError
                                    [] result[c] = "status_err" -> StatusError(reply[c])
                                    [] OTHER -> TransportError)
                  /\ \A i \in 1..Len(thrown[c].message) :
                        Contains(toolResult[c].text, thrown[c].message[i])

\* each of the three failure classes has ended an invocation
C13_Witness ==
    \E a, b, c \in Callers :
        /\ result[a] = "quota_err" /\ toolResult[a] = err(String(QuotaError))
        /\ result[b] = "status_err" /\ toolResult[b].isError
        /\ reply[b].status = 500
        /\ result[c] = "transport_err" /\ toolResult[c].isError

\* C14: whenever no canliiRequest invocation is in progress, inFlight is
\* false and the queue is empty.
C14_NoLeak ==
    (\A c \in Callers : ~InProgress(c)) => (~inFlight /\ queue = <<>>)

\* nothing is in progress after invocations that were queued, that failed
\* on the network and that failed on the quota
C14_Witness ==
    /\ \A c \in Callers : ~InProgress(c)
    /\ \E c \in Callers : pc[c] = "done" /\ ~sawFree[c] /\ releases[c] = 1
    /\ \E c \in Callers : result[c] = "transport_err"
    /\ \E c \in Callers : result[c] = "quota_err"

\* the request was answered, or passed on, without a tool being invoked
NoToolInvoked(c) ==
    /\ result[c] = "none" /\ toolResult[c] = NoResult
    /\ fetches[c] = 0 /\ admittedAt[c] = -1 /\ ~sawFree[c]

SentKeys(c) == {k \in ParamKeys : params[c][k] # <<>> /\ params[c][k] # <<"">>}

\* C16: the query of the fetch holds api_key and exactly the parameters of
\* the mapping whose value is present and not the empty string, each with
\* its value; api_key carries the API key unless the mapping sends a
\* parameter of that name.
C16_ParamFiltering ==
    \A c \in Callers :
        fetches[c] = 1 =>
            /\ DOMAIN query[c] = {"api_key"} \cup SentKeys(c)
            /\ \A k \in SentKeys(c) : query[c][k] = params[c][k][1]
            /\ "api_key" \notin SentKeys(c) => query[c]["api_key"] = ApiKey

\* fetches were made for a mapping with an empty value, which was not
\* sent, and for a mapping with a present value, which was sent
C16_Witness ==
    \E c, d \in Callers :
        /\ fetches[c] = 1 /\ fetches[d] = 1
        /\ params[c]["publishedBefore"] = <<"">>
        /\ DOMAIN query[c] = {"api_key"}
        /\ params[d]["publishedBefore"] = <<"25">> /\ params[d]["api_key"] = <<>>
        /\ query[d] = [k \in {"api_key", "publishedBefore"} |->
                          IF k = "api_key" THEN ApiKey ELSE "25"]

\* C17: the step in which an acquireSlot call fails on the quota leaves
\* inFlight, the queue, lastRequestTime and dailyCount as they were, wakes
\* no waiter and releases nothing, whether the slot is free or held.
C17_QuotaFailFrame ==
    [][\A c \in Callers :
         (result[c] # "quota_err" /\ result'[c] = "quota_err") =>
             /\ inFlight' = inFlight
             /\ queue' = queue
             /\ lastRequestTime' = lastRequestTime
             /\ dailyCount' = dailyCount
             /\ releases' = releases
             /\ \A d \in Callers \ {c} : pc'[d] = pc[d]
    ]_vars

\* one call failed on the quota with the slot held and another with the
\* slot free
C17_Witness ==
    \E c, d \in Callers :
        /\ result[c] = "quota_err" /\ sawFree[c]
        /\ result[d] = "quota_err" /\ ~sawFree[d]

\* C18: no acquireSlot call finds inFlight false while a waiter that
\* releaseSlot has dequeued and resolved has not yet resumed.
C18_DirectHandoff == ~overtaken

\* C19: while a caller is suspended on the spacing delay inFlight is true;
\* a call that passes the quota check during that delay is enqueued, and it
\* is not admitted before the delayed caller has been admitted and has
\* called releaseSlot.
C19_HeldDuringSpacing ==
    /\ \A c \in Callers : pc[c] = "spacing" => inFlight
    /\ \A d \in Callers : \A c \in behind[d] :
          /\ ~sawFree[d]
          /\ admittedAt[d] # -1 => (admittedAt[c] # -1 /\ releases[c] = 1)

\* C20: in every step dailyCount stays, grows by 1 together with one
\* admission, or restarts from 0 together with a change of dailyResetDate
\* (counting the admission of the resetting call, if it is admitted in the
\* same step); without a change of dailyResetDate it never decreases.
C20_CounterSteps ==
    [][LET reset == dailyResetDate' # dailyResetDate
           base == IF reset THEN 0 ELSE dailyCount
           admitted == Len(admissions') - Len(admissions)
       IN  /\ admitted \in {0, 1}
           /\ dailyCount' = base + admitted
           /\ reset <=> (DayKey(now) # dailyResetDate
                            /\ \E c \in Callers : pc[c] = "idle" /\ pc'[c] # "idle")
           /\ ~reset => dailyCount' >= dailyCount
    ]_vars

\* the day changed with a counter above 1: a call reset it and admissions
\* of the new day have been counted since
C20_Witness ==
    /\ dailyResetDate = DayKey(StartTime) + 1
    /\ \E c \in Callers : rolledOver[c]
    /\ dailyCount >= 2

\* the number of entries of c in the queue
Entries(c) == Cardinality({i \in 1..Len(queue) : queue[i] = c})

\* C21: a caller has one entry in the queue exactly while it waits there;
\* the queue changes only by a call that appends its caller or by one
\* releaseSlot that removes the head and wakes it; a caller leaves the
\* queue only by being woken, is woken only as the head and only while it
\* waits, and each step wakes at most one caller.
C21_ExactlyOnceDequeue ==
    /\ [](\A c \in Callers : Entries(c) = (IF pc[c] = "queued" THEN 1 ELSE 0))
    /\ [][/\ queue' # queue =>
               \/ \E e \in Callers :
                     /\ pc[e] = "idle" /\ pc'[e] = "queued"
                     /\ queue' = Append(queue, e)
               \/ /\ queue # <<>> /\ queue' = Tail(queue)
                  /\ pc'[Head(queue)] = "woken"
                  /\ Cardinality({d \in Callers :
                                     releases'[d] = releases[d] + 1}) = 1
           /\ \A c \in Callers :
                 /\ (pc'[c] = "woken" /\ pc[c] # "woken") =>
                       /\ pc[c] = "queued" /\ c = Head(queue)
                       /\ queue' = Tail(queue)
                 /\ (pc[c] = "queued" /\ pc'[c] # "queued") => pc'[c] = "woken"
                 /\ (pc'[c] = "queued" /\ pc[c] # "queued") => pc[c] = "idle"
                 /\ (pc[c] = "woken" /\ pc'[c] # "woken") =>
                       pc'[c] \in {"spacing", "admitted"}
           /\ Cardinality({w \in Callers :
                              pc'[w] = "woken" /\ pc[w] # "woken"}) <= 1
       ]_vars

\* two callers waited in the queue, were woken in turn and were admitted
C21_Witness ==
    \E c, d \in Callers :
        /\ c < d /\ queue = <<>>
        /\ PassedCheck(c) /\ ~sawFree[c] /\ admittedAt[c] # -1
        /\ PassedCheck(d) /\ ~sawFree[d] /\ admittedAt[d] > admittedAt[c]

Counted(d) == admittedAt[d] # -1 /\ releases[d] = 0

\* a step of c's acquireSlot (lines 22-36) or releaseSlot (lines 38-42)
GovernorStep(c) ==
    \/ pc[c] \in {"idle", "woken", "spacing"} /\ pc'[c] # pc[c]
    \/ releases'[c] # releases[c]

\* C23: whenever a caller's acquireSlot or releaseSlot runs, every other
\* caller holds the token exactly if its admission has been counted in
\* dailyCount; looked at in runs without overtaking.
C23_AtomicGovernorState ==
    [][~overtaken' =>
          \A c \in Callers :
              GovernorStep(c) =>
                  \A d \in Callers \ {c} : Holding(d) <=> Counted(d)
      ]_vars

\* C24: with at most MaxPending callers between the quota check and the
\* count, dailyCount never exceeds DAILY_QUOTA - 1 + MaxPending, and what
\* it can still gain is the number of callers that have passed the check.
C24_BoundedOvershoot ==
    /\ Cardinality({c \in Callers : Pending(c)}) <= MaxPending
    /\ dailyCount + Cardinality({c \in Callers : Pending(c)})
          <= DAILY_QUOTA - 1 + MaxPending
    /\ dailyCount <= DAILY_QUOTA - 1 + MaxPending

\* the counter stands at the bound, MaxPending callers having passed the
\* check at DAILY_QUOTA - 1 and a later call having failed the check
C24_Witness ==
    /\ dailyCount = DAILY_QUOTA - 1 + MaxPending
    /\ \E c \in Callers : result[c] = "quota_err"
    /\ \E c, d \in Callers :
          /\ c # d
          /\ countAtReturn[c] > DAILY_QUOTA
          /\ countAtReturn[d] = DAILY_QUOTA

\* C25: whenever callers wait in the queue, some caller holds the token and
\* has yet to call releaseSlot, or has been woken by releaseSlot and has
\* yet to resume.
C25_NoStrandedWaiter ==
    queue # <<>> =>
        \E c \in Callers : Holding(c) \/ pc[c] = "woken"

\* callers wait in the queue while the token is free and nobody holds it:
\* the only one left to call releaseSlot is the waiter just woken
C25_Witness ==
    /\ queue # <<>>
    /\ ~inFlight
    /\ \A c \in Callers : ~Holding(c)
    /\ \E c \in Callers : pc[c] = "woken" /\ releases[c] = 0
====
